---------------------------- MODULE Spec2Model ----------------------------
(***************************************************************************)
(* A model of tonal/chords.py: the chord grammar (root table, interval     *)
(* table with derived aliases, parse_root, chord_to_notes), the chord      *)
(* renderers and their registry, and the chord-sequence preprocessor.      *)
(*                                                                         *)
(* A Python str is a sequence of one-character strings, so that slicing,   *)
(* startswith, replace and the regular-expression match are computed on    *)
(* characters.  A Python object handed around as data is a tagged record   *)
(* (PyStr, PyInt, PyTuple, PyList, PyFunc).  A call's outcome is a record  *)
(* Returns(value) or Raises(type, message).                                  *)
(***************************************************************************)
EXTENDS Integers, Sequences, FiniteSets, TLC

VARIABLES
    pc,                  \* "import": module body not yet run; "idle"; "called"
    quality_extensions,  \* chords.py global dict: quality string -> intervals
    chord_renders,       \* chords.py global dict: name -> renderer
    op,                  \* name of the function last called
    args,                \* its arguments
    ret                  \* its outcome

vars == <<pc, quality_extensions, chord_renders, op, args, ret>>

---------------------------------------------------------------------------
(* Bounds of the inputs.                                                   *)

MaxNotes == 3        \* longest pitch list handed to a renderer
MaxDuration == 6     \* durations 0..MaxDuration (and the named ones below)
MaxSeqLen == 2       \* longest chord sequence handed to the preprocessor
MaxSteps == 16       \* translations -MaxSteps..MaxSteps, beyond one window
MaxTrackLen == 4     \* longest single track handed to translate_in_scale
MaxTracks == 2       \* most tracks handed to translate_in_scale at once
MaxSegments == 2     \* most segments handed to concatenate_streams

---------------------------------------------------------------------------
(* Python values and call outcomes.                                        *)

PyNone == [type |-> "NoneType"]
PyStr(s) == [type |-> "str", s |-> s]
PyInt(n) == [type |-> "int", n |-> n]
PyTuple(items) == [type |-> "tuple", items |-> items]
PyList(items) == [type |-> "list", items |-> items]
PyFunc(name, id) == [type |-> "function", name |-> name, id |-> id]

Lit(text) == [lit |-> text]      \* literal part of a message
Interp(v) == [val |-> v]         \* interpolated {value} of an f-string

Returns(v) == [kind |-> "return", value |-> v]
Raises(type, msg) == [kind |-> "raise", type |-> type, msg |-> msg]
NoCall == [kind |-> "none"]

---------------------------------------------------------------------------
(* str helpers.                                                            *)

startswith(s, p) == Len(s) >= Len(p) /\ SubSeq(s, 1, Len(p)) = p

\* s[n:] for 0 <= n
SliceFrom(s, n) == SubSeq(s, n + 1, Len(s))

\* str.replace(old, new): every non-overlapping occurrence, left to right
RECURSIVE replace(_, _, _)
replace(s, old, new) ==
    IF s = <<>> THEN <<>>
    ELSE IF startswith(s, old) THEN new \o replace(SliceFrom(s, Len(old)), old, new)
    ELSE <<Head(s)>> \o replace(Tail(s), old, new)

---------------------------------------------------------------------------
(* The tables.                                                             *)

root_notes ==
    (<<"C">> :> 60) @@ (<<"C", "#">> :> 61) @@ (<<"D", "b">> :> 61) @@
    (<<"D">> :> 62) @@ (<<"D", "#">> :> 63) @@ (<<"E", "b">> :> 63) @@
    (<<"E">> :> 64) @@ (<<"F">> :> 65) @@ (<<"F", "#">> :> 66) @@
    (<<"G", "b">> :> 66) @@ (<<"G">> :> 67) @@ (<<"G", "#">> :> 68) @@
    (<<"A", "b">> :> 68) @@ (<<"A">> :> 69) @@ (<<"A", "#">> :> 70) @@
    (<<"B", "b">> :> 70) @@ (<<"B">> :> 71)

\* A dict is the sequence of its <<key, value>> items in insertion order.
Keys(d) == {d[i][1] : i \in DOMAIN d}
Lookup(d, k) == d[CHOOSE i \in DOMAIN d : d[i][1] = k][2]

\* d[k] = v: an existing key keeps its position, a new one goes last
DictSet(d, k, v) ==
    IF k \in Keys(d)
    THEN [i \in DOMAIN d |-> IF d[i][1] = k THEN <<k, v>> ELSE d[i]]
    ELSE Append(d, <<k, v>>)

\* d.update(dict(pairs)), pairs in the order they are yielded
RECURSIVE update(_, _)
update(d, pairs) ==
    IF pairs = <<>> THEN d
    ELSE update(DictSet(d, Head(pairs)[1], Head(pairs)[2]), Tail(pairs))

\* the dict literal, before the alias pass
quality_extensions_literal == <<
    <<<<>>, <<0, 4, 7>>>>,
    <<<<"m", "a", "j">>, <<0, 4, 7>>>>,
    <<<<"m", "i", "n">>, <<0, 3, 7>>>>,
    <<<<"d", "i", "m">>, <<0, 3, 6>>>>,
    <<<<"a", "u", "g">>, <<0, 4, 8>>>>,
    <<<<"7">>, <<0, 4, 7, 10>>>>,
    <<<<"m", "a", "j", "7">>, <<0, 4, 7, 11>>>>,
    <<<<"m", "i", "n", "7">>, <<0, 3, 7, 10>>>>,
    <<<<"m", "i", "n", "m", "a", "j", "7">>, <<0, 3, 7, 11>>>>,
    <<<<"d", "i", "m", "7">>, <<0, 3, 6, 9>>>>,
    <<<<"h", "d", "i", "m", "7">>, <<0, 3, 6, 10>>>>,
    <<<<"a", "u", "g", "7">>, <<0, 4, 8, 10>>>>,
    <<<<"6">>, <<0, 4, 7, 9>>>>,
    <<<<"m", "i", "n", "6">>, <<0, 3, 7, 9>>>>,
    <<<<"9">>, <<0, 4, 7, 10, 14>>>>,
    <<<<"m", "a", "j", "9">>, <<0, 4, 7, 11, 14>>>>,
    <<<<"m", "i", "n", "9">>, <<0, 3, 7, 10, 14>>>>,
    <<<<"1", "1">>, <<0, 4, 7, 10, 14, 17>>>>,
    <<<<"m", "a", "j", "1", "1">>, <<0, 4, 7, 11, 14, 17>>>>,
    <<<<"m", "i", "n", "1", "1">>, <<0, 3, 7, 10, 14, 17>>>>,
    <<<<"1", "3">>, <<0, 4, 7, 10, 14, 17, 21>>>>,
    <<<<"m", "a", "j", "1", "3">>, <<0, 4, 7, 11, 14, 17, 21>>>>,
    <<<<"m", "i", "n", "1", "3">>, <<0, 3, 7, 10, 14, 17, 21>>>> >>

\* Variant of add_aliases: the min branch substitutes "M", the maj branch's
\* replacement, so the aliases of min keys collide with those of maj keys.
RECURSIVE add_aliases_min_as_M_from(_, _)
add_aliases_min_as_M_from(qe, i) ==
    IF i > Len(qe) THEN <<>>
    ELSE LET k == qe[i][1]
             rest == add_aliases_min_as_M_from(qe, i + 1)
         IN  IF startswith(k, <<"m", "a", "j">>)
                 THEN <<<<replace(k, <<"m", "a", "j">>, <<"M">>), Lookup(qe, k)>>>> \o rest
             ELSE IF startswith(k, <<"m", "i", "n">>)
                 THEN <<<<replace(k, <<"m", "i", "n">>, <<"M">>), Lookup(qe, k)>>>> \o rest
             ELSE IF startswith(k, <<"d", "i", "m">>)
                 THEN <<<<replace(k, <<"d", "i", "m">>, <<"°">>), Lookup(qe, k)>>>> \o rest
             ELSE rest

add_aliases_min_as_M(qe) == add_aliases_min_as_M_from(qe, 1)

\* the (alias, intervals) pairs the generator yields, in iteration order
RECURSIVE add_aliases_from(_, _)
add_aliases_from(qe, i) ==
    IF i > Len(qe) THEN <<>>
    ELSE LET k == qe[i][1]
             rest == add_aliases_from(qe, i + 1)
         IN  IF startswith(k, <<"m", "a", "j">>)
                 THEN <<<<replace(k, <<"m", "a", "j">>, <<"M">>), Lookup(qe, k)>>>> \o rest
             ELSE IF startswith(k, <<"m", "i", "n">>)
                 THEN <<<<replace(k, <<"m", "i", "n">>, <<"m">>), Lookup(qe, k)>>>> \o rest
             ELSE IF startswith(k, <<"d", "i", "m">>)
                 THEN <<<<replace(k, <<"d", "i", "m">>, <<"°">>), Lookup(qe, k)>>>> \o rest
             ELSE rest

add_aliases(qe) == add_aliases_from(qe, 1)

---------------------------------------------------------------------------
(* The chord grammar.                                                      *)

\* Variant of the pattern without the optional accidental: [A-Ga-g] alone.
chord_note_pattern_no_accidental(chord) ==
    IF Len(chord) >= 1 /\ chord[1] \in {"A", "B", "C", "D", "E", "F", "G",
                                         "a", "b", "c", "d", "e", "f", "g"}
    THEN SubSeq(chord, 1, 1)
    ELSE <<>>

\* chord_note_pattern.match(chord): [A-Ga-g] then a greedy optional [#b],
\* anchored at position 0; <<>> stands for "no match"
chord_note_pattern_match(chord) ==
    IF Len(chord) >= 1 /\ chord[1] \in {"A", "B", "C", "D", "E", "F", "G",
                                         "a", "b", "c", "d", "e", "f", "g"}
    THEN IF Len(chord) >= 2 /\ chord[2] \in {"#", "b"}
         THEN SubSeq(chord, 1, 2)
         ELSE SubSeq(chord, 1, 1)
    ELSE <<>>

parse_root(chord) ==
    LET match == chord_note_pattern_match(chord)
    IN  IF match # <<>>
        THEN Returns(match)
        ELSE Raises("ValueError", <<Lit("Invalid chord: "), Interp(chord)>>)

\* Variant of chord_to_notes that takes the quality from position 1, as if
\* every root were one character long.
chord_to_notes_one_char_root(chord) ==
    LET parsed == parse_root(chord)
    IN  IF parsed.kind = "raise" THEN parsed
        ELSE LET root == parsed.value
                 quality_extension == SliceFrom(chord, 1)
             IN  IF root \notin DOMAIN root_notes
                 THEN Raises("ValueError", <<Lit("Unknown root note: "), Interp(root)>>)
                 ELSE IF quality_extension \notin Keys(quality_extensions)
                 THEN Raises("ValueError",
                            <<Lit("Unknown quality/extension: "), Interp(quality_extension)>>)
                 ELSE LET root_midi == root_notes[root]
                          intervals == Lookup(quality_extensions, quality_extension)
                      IN  Returns([i \in 1..Len(intervals) |-> root_midi + intervals[i]])

\* Variant of chord_to_notes that falls back to the major triad for a quality
\* the table does not have.
chord_to_notes_default_quality(chord) ==
    LET parsed == parse_root(chord)
    IN  IF parsed.kind = "raise" THEN parsed
        ELSE LET root == parsed.value
                 quality_extension == SliceFrom(chord, Len(root))
             IN  IF root \notin DOMAIN root_notes
                 THEN Raises("ValueError", <<Lit("Unknown root note: "), Interp(root)>>)
                 ELSE LET root_midi == root_notes[root]
                          intervals ==
                              IF quality_extension \in Keys(quality_extensions)
                              THEN Lookup(quality_extensions, quality_extension)
                              ELSE <<0, 4, 7>>
                      IN  Returns([i \in 1..Len(intervals) |-> root_midi + intervals[i]])

chord_to_notes(chord) ==
    LET parsed == parse_root(chord)
    IN  IF parsed.kind = "raise" THEN parsed
        ELSE LET root == parsed.value
                 quality_extension == SliceFrom(chord, Len(root))
             IN  IF root \notin DOMAIN root_notes
                 THEN Raises("ValueError", <<Lit("Unknown root note: "), Interp(root)>>)
                 ELSE IF quality_extension \notin Keys(quality_extensions)
                 THEN Raises("ValueError",
                            <<Lit("Unknown quality/extension: "), Interp(quality_extension)>>)
                 ELSE LET root_midi == root_notes[root]
                          intervals == Lookup(quality_extensions, quality_extension)
                      IN  Returns([i \in 1..Len(intervals) |-> root_midi + intervals[i]])

---------------------------------------------------------------------------
(* The renderers and their registry.                                       *)

Message(type, note, velocity, time) ==
    [type |-> type, note |-> note, velocity |-> velocity, time |-> time]

\* register_chord_render's effect on the registry
registered(renders, chord_renderer, name) ==
    (chord_renderer.name :> chord_renderer) @@ renders

\* Variant of play_simultaneously in which every note_off carries the
\* duration as its delta.
play_simultaneously_every_off_delayed(notes, track, duration, velocity) ==
    LET ons == [i \in 1..Len(notes) |-> Message("note_on", notes[i], velocity, 0)]
    IN  IF notes = <<>>
        THEN [kind |-> "raise", type |-> "StopIteration", msg |-> <<>>,
              track |-> track \o ons]
        ELSE [kind |-> "return", value |-> PyNone,
              track |-> track \o ons
                        \o [i \in 1..Len(notes) |->
                               Message("note_off", notes[i], velocity, duration)]]

\* Variant of play_simultaneously that never releases the last pitch.
play_simultaneously_last_held(notes, track, duration, velocity) ==
    LET ons == [i \in 1..Len(notes) |-> Message("note_on", notes[i], velocity, 0)]
    IN  IF notes = <<>>
        THEN [kind |-> "raise", type |-> "StopIteration", msg |-> <<>>,
              track |-> track \o ons]
        ELSE [kind |-> "return", value |-> PyNone,
              track |-> track \o ons
                        \o [i \in 1..(Len(notes) - 1) |->
                               Message("note_off", notes[i], velocity,
                                       IF i = 1 THEN duration ELSE 0)]]

\* a renderer's outcome: what it returns or raises, and the track afterwards
play_simultaneously(notes, track, duration, velocity) ==
    LET ons == [i \in 1..Len(notes) |-> Message("note_on", notes[i], velocity, 0)]
    IN  IF notes = <<>>
        THEN [kind |-> "raise", type |-> "StopIteration", msg |-> <<>>,
              track |-> track \o ons]
        ELSE [kind |-> "return", value |-> PyNone,
              track |-> track \o ons
                        \o <<Message("note_off", notes[1], velocity, duration)>>
                        \o [i \in 1..(Len(notes) - 1) |->
                               Message("note_off", notes[i + 1], velocity, 0)]]

\* the events of the loop's iterations i..Len(notes), current_time being
\* the running total the loop keeps
RECURSIVE arpeggio_events(_, _, _, _, _)
arpeggio_events(notes, i, current_time, note_duration, velocity) ==
    IF i > Len(notes) THEN <<>>
    ELSE <<Message("note_on", notes[i], velocity, current_time),
           Message("note_off", notes[i], velocity, current_time + note_duration)>>
         \o arpeggio_events(notes, i + 1, current_time + note_duration,
                            note_duration, velocity)

play_arpeggio(notes, track, duration, velocity) ==
    IF Len(notes) = 0
    THEN [kind |-> "raise", type |-> "ZeroDivisionError", msg |-> <<>>,
          track |-> track]
    ELSE [kind |-> "return", value |-> PyNone,
          track |-> track \o arpeggio_events(notes, 1, 0, duration \div Len(notes),
                                             velocity)]

PyName(name) == [type |-> "str", name |-> name]   \* a str naming a renderer

resolve_chord_render(chord_renderer) ==
    IF chord_renderer.type = "str"
    THEN IF chord_renderer.name \notin DOMAIN chord_renders
         THEN Raises("ValueError",
                    <<Lit("Unknown chord renderer: "), Interp(chord_renderer.name),
                      Lit(". "),
                      Lit("(Available: {\", \".join(chord_renders)}). "),
                      Lit("You can register a new chord renderer with register_chord_render.")>>)
         ELSE Returns(chord_renders[chord_renderer.name])
    ELSE Returns(chord_renderer)

---------------------------------------------------------------------------
(* The chord-sequence preprocessor.                                        *)

DFLT_DURATION == 240 * 4

\* the generator run to its end: the items it yields and how it stops
RECURSIVE process_chord_sequence(_, _)
process_chord_sequence(chord_sequence, default_duration) ==
    IF chord_sequence = <<>>
    THEN [kind |-> "return", value |-> PyNone, yielded |-> <<>>]
    ELSE LET chord == Head(chord_sequence)
             rest == process_chord_sequence(Tail(chord_sequence), default_duration)
         IN  IF chord.type = "str"
             THEN [rest EXCEPT !.yielded =
                      <<PyTuple(<<chord, PyInt(default_duration)>>)>> \o @]
             ELSE IF chord.type = "tuple"
             THEN [rest EXCEPT !.yielded = <<chord>> \o @]
             ELSE [kind |-> "raise", type |-> "ValueError",
                   msg |-> <<Lit("Invalid chord: "), Interp(chord)>>,
                   yielded |-> <<>>]

---------------------------------------------------------------------------
(* Inputs.                                                                 *)

RootLetterInputs ==
    {"A", "B", "C", "D", "E", "F", "G", "a", "b", "c", "e", "g", "H", "7"}

AccidentalInputs == {<<>>, <<"#">>, <<"b">>}

\* every key of the table after the alias pass, and strings that are no key
QualityInputs ==
    Keys(update(quality_extensions_literal, add_aliases(quality_extensions_literal)))
    \cup {<<"x", "y", "z">>, <<"b", "9">>, <<"#", "9">>, <<"b">>, <<"#">>,
          <<"m", "7", "b", "5">>, <<"m", "M", "7">>, <<"s", "u", "s", "4">>,
          <<"M", "a", "j">>, <<"m", "a", "j", "7", " ">>, <<"d", "i", "m", "9">>}

ChordInputs ==
    {<<l>> \o a \o q : l \in RootLetterInputs, a \in AccidentalInputs, q \in QualityInputs}
    \cup {<<>>, <<"#", "C">>, <<" ", "C">>, <<"m", "a", "j">>}

PitchInputs == {60, 64, 67}
NotesInputs == UNION {[1..n -> PitchInputs] : n \in 0..MaxNotes}
DurationInputs == (0..MaxDuration) \cup {120, DFLT_DURATION}
VelocityInputs == {64, 100}
TrackInputs ==
    {<<>>,
     <<[type |-> "program_change", program |-> 0, time |-> 0],
       Message("note_on", 72, 64, 0), Message("note_off", 72, 64, 5)>>}

play_simultaneously_func == PyFunc("play_simultaneously", 0)
play_arpeggio_func == PyFunc("play_arpeggio", 0)

\* functions a caller may register: two of them share one __name__
RendererInputs ==
    {play_simultaneously_func, play_arpeggio_func,
     PyFunc("strum", 1), PyFunc("strum", 2), PyFunc("my_render", 1)}

NameInputs == {"play_simultaneously", "play_arpeggio", "strum", "my_render", "block"}

EntryInputs ==
    {PyStr(<<"C">>), PyStr(<<"G", "7">>),
     PyTuple(<<PyStr(<<"A", "m">>), PyInt(120)>>),
     PyTuple(<<PyStr(<<"C">>), PyInt(120), PyInt(1)>>),
     PyTuple(<<PyStr(<<"C">>)>>),
     PyTuple(<<PyInt(120), PyStr(<<"C">>)>>),
     PyList(<<PyStr(<<"C">>), PyInt(120)>>),
     PyInt(5), PyNone}

SequenceInputs == UNION {[1..n -> EntryInputs] : n \in 0..MaxSeqLen}

---------------------------------------------------------------------------
(* chords_to_midi.                                                         *)

chord_to_notes_func == PyFunc("chord_to_notes", 0)

\* a caller's chord definitions: the symbol N (no chord) has no pitches, any
\* other symbol is defined as chord_to_notes defines it
rests_definitions_func == PyFunc("rests_definitions", 1)

\* chord_definitions(chord)
call_chord_definitions(chord_definitions, chord) ==
    IF chord.type # "str"
    THEN Raises("TypeError", <<Lit("expected string or bytes-like object")>>)
    ELSE IF chord_definitions = rests_definitions_func /\ chord.s = <<"N">>
    THEN Returns(<<>>)
    ELSE chord_to_notes(chord.s)

call_render_chord_with_program_change(render_chord, pattern, track, duration) ==
    IF render_chord = play_simultaneously_func
    THEN play_simultaneously(pattern, Append(track, [type |-> "program_change",
                                                     program |-> 0, time |-> 0]),
                             duration, 64)
    ELSE play_arpeggio(pattern, Append(track, [type |-> "program_change",
                                               program |-> 0, time |-> 0]),
                       duration, 64)

\* render_chord(pattern, track, duration), velocity left at its default
call_render_chord(render_chord, pattern, track, duration) ==
    IF render_chord = play_simultaneously_func
    THEN play_simultaneously(pattern, track, duration, 64)
    ELSE IF render_chord = play_arpeggio_func
    THEN play_arpeggio(pattern, track, duration, 64)
    ELSE [kind |-> "return", value |-> PyNone, track |-> track]

render_always(render_chord, pattern, track, duration) ==
    call_render_chord(render_chord, pattern, track, duration)

\* if pattern: render_chord(pattern, track, duration)
render_if_pattern(render_chord, pattern, track, duration) ==
    IF pattern = <<>>
    THEN [kind |-> "return", value |-> PyNone, track |-> track]
    ELSE call_render_chord(render_chord, pattern, track, duration)

\* The loop over the items the generator has yielded, from item i on.  stop
\* is how the generator ends once they are consumed (it validates one entry
\* at a time, so its error comes after the earlier entries were rendered).
RECURSIVE render_items(_, _, _, _, _, _)
render_items(items, i, stop, track, render_chord, chord_definitions) ==
    IF i > Len(items)
    THEN IF stop.kind = "raise"
         THEN [kind |-> "raise", type |-> stop.type, msg |-> stop.msg, track |-> track]
         ELSE [kind |-> "return", value |-> PyNone, track |-> track]
    ELSE IF Len(items[i].items) # 2
    THEN [kind |-> "raise", type |-> "ValueError",
          msg |-> <<Lit(IF Len(items[i].items) < 2
                        THEN "not enough values to unpack"
                        ELSE "too many values to unpack")>>,
          track |-> track]
    ELSE LET chord == items[i].items[1]
             duration == items[i].items[2]
             pattern == call_chord_definitions(chord_definitions, chord)
         IN  IF pattern.kind = "raise"
             THEN [kind |-> "raise", type |-> pattern.type, msg |-> pattern.msg,
                   track |-> track]
             ELSE LET rendered == render_if_pattern(render_chord, pattern.value, track,
                                                    duration.n)
                  IN  IF rendered.kind = "raise"
                      THEN rendered
                      ELSE render_items(items, i + 1, stop, rendered.track,
                                        render_chord, chord_definitions)

program_change == [type |-> "program_change", program |-> 0, time |-> 0]

\* The outcome carries the track as the call left it and the tracks written
\* to output_file (<<>> when midi.save was not reached).
chords_to_midi(chord_sequence, output_file, render_chord, chord_definitions) ==
    LET resolved == resolve_chord_render(render_chord)
    IN  IF resolved.kind = "raise"
        THEN [kind |-> "raise", type |-> resolved.type, msg |-> resolved.msg,
              track |-> <<>>, saved |-> <<>>]
        ELSE LET gen == process_chord_sequence(chord_sequence, DFLT_DURATION)
                 done == render_items(gen.yielded, 1, gen, <<program_change>>,
                                      resolved.value, chord_definitions)
             IN  IF done.kind = "raise"
                 THEN [kind |-> "raise", type |-> done.type, msg |-> done.msg,
                       track |-> done.track, saved |-> <<>>]
                 ELSE IF output_file.type = "str"
                 THEN [kind |-> "return", value |-> output_file,
                       track |-> done.track, saved |-> <<done.track>>]
                 ELSE [kind |-> "return",
                       value |-> [type |-> "MidiFile", tracks |-> <<done.track>>],
                       track |-> done.track, saved |-> <<>>]

PyPath(path) == [type |-> "str", path |-> path]   \* a str naming a file

MidiEntryInputs ==
    {PyStr(<<"C">>), PyStr(<<"N">>),
     PyTuple(<<PyStr(<<"A", "m">>), PyInt(120)>>),
     PyTuple(<<PyStr(<<"N">>), PyInt(120)>>),
     PyStr(<<"C", "x", "y", "z">>),
     PyTuple(<<PyStr(<<"C">>), PyInt(120), PyInt(1)>>),
     PyList(<<PyStr(<<"C">>), PyInt(120)>>)}

MidiSequenceInputs == UNION {[1..n -> MidiEntryInputs] : n \in 0..MaxSeqLen}

OutputFileInputs == {PyPath("audio_output.mid"), PyNone}

RenderChordInputs == {play_simultaneously_func, PyName("play_arpeggio"), PyName("block")}

ChordDefinitionsInputs == {chord_to_notes_func, rests_definitions_func}

---------------------------------------------------------------------------
(* counterpoint.py: notes, scales and the window of scale pitches.  A note *)
(* name is a sequence of characters: a step letter, an accidental and an   *)
(* octave digit.  Note(name) parses it and nameWithOctave writes it back,  *)
(* a flat always as "-".                                                   *)

StepNames == <<"C", "D", "E", "F", "G", "A", "B">>
StepSemitones == <<0, 2, 4, 5, 7, 9, 11>>
Digits == <<"0", "1", "2", "3", "4", "5", "6", "7", "8", "9">>

StepIndex(step) == CHOOSE i \in 1..7 : StepNames[i] = step
IsDigit(c) == \E i \in 1..10 : Digits[i] = c
DigitValue(c) == (CHOOSE i \in 1..10 : Digits[i] = c) - 1

\* the accidental a name spells: "#" sharp, "b" or "-" flat
AccidentalAlter(text) ==
    CASE text = <<>> -> 0
      [] text = <<"#">> -> 1
      [] text = <<"#", "#">> -> 2
      [] text \in {<<"b">>, <<"-">>} -> -1
      [] text \in {<<"b", "b">>, <<"-", "-">>} -> -2

AccidentalName(alter) ==
    CASE alter = 0 -> <<>>
      [] alter = 1 -> <<"#">>
      [] alter = 2 -> <<"#", "#">>
      [] alter = -1 -> <<"-">>
      [] alter = -2 -> <<"-", "-">>

\* Note(name).pitch; without an octave digit the pitch sounds in octave 4
Note(name) ==
    LET has_octave == IsDigit(name[Len(name)])
        last == IF has_octave THEN Len(name) - 1 ELSE Len(name)
    IN  [step |-> name[1],
         alter |-> AccidentalAlter(SubSeq(name, 2, last)),
         octave |-> IF has_octave THEN DigitValue(name[Len(name)]) ELSE 4,
         has_octave |-> has_octave]

nameWithOctave(p) ==
    <<p.step>> \o AccidentalName(p.alter)
        \o (IF p.has_octave THEN <<Digits[p.octave + 1]>> ELSE <<>>)

\* pitch space number (MIDI number) of a pitch
ps(p) == 12 * (p.octave + 1) + StepSemitones[StepIndex(p.step)] + p.alter

\* semitones from the tonic to each of the seven degrees
ScaleOffsets(scale_creator) ==
    IF scale_creator = "HarmonicMinorScale"
    THEN <<0, 2, 3, 5, 7, 8, 11>>
    ELSE <<0, 2, 4, 5, 7, 9, 11>>

ensure_scale(input_scale, scale_creator) ==
    [tonic |-> Note(input_scale), offsets |-> ScaleOffsets(scale_creator)]

\* the pitch of the scale that sounds at pitch space number n, spelled on
\* the letter of its degree
ScalePitch(scale, n) ==
    LET tonic_ps == ps(scale.tonic)
        degree == CHOOSE d \in 1..7 : scale.offsets[d] = (n - tonic_ps) % 12
        step_index == ((StepIndex(scale.tonic.step) - 1 + degree - 1) % 7) + 1
        alter == ((n - StepSemitones[step_index] + 6) % 12) - 6
    IN  [step |-> StepNames[step_index], alter |-> alter,
         octave |-> ((n - alter) \div 12) - 1, has_octave |-> TRUE]

RECURSIVE Ascending(_)
Ascending(S) ==
    IF S = {} THEN <<>>
    ELSE LET m == CHOOSE x \in S : \A y \in S : x <= y
         IN  <<m>> \o Ascending(S \ {m})

\* input_scale.getPitches(minPitch, maxPitch): the pitches of the scale from
\* minPitch to maxPitch, both included, lowest first
getPitches(scale, min_ps, max_ps) ==
    LET member(n) == \E d \in 1..7 : scale.offsets[d] = (n - ps(scale.tonic)) % 12
        sounding == Ascending({n \in min_ps..max_ps : member(n)})
    IN  [i \in 1..Len(sounding) |-> ScalePitch(scale, sounding[i])]

get_scale_notes_octave_above(input_note, input_scale) ==
    LET scale_notes == getPitches(input_scale, ps(input_note), ps(input_note) + 12)
    IN  [i \in 1..Len(scale_notes) |-> nameWithOctave(scale_notes[i])]

get_scale_notes_open_window(input_note, input_scale) ==
    LET scale_notes == getPitches(input_scale, ps(input_note) - 11, ps(input_note) + 11)
    IN  [i \in 1..Len(scale_notes) |-> nameWithOctave(scale_notes[i])]

get_scale_notes_octave_by_octave(input_note, input_scale) ==
    LET below == getPitches(input_scale, ps(input_note) - 12, ps(input_note))
        above == getPitches(input_scale, ps(input_note), ps(input_note) + 12)
        scale_notes == below \o above
    IN  [i \in 1..Len(scale_notes) |-> nameWithOctave(scale_notes[i])]

get_scale_notes(input_note, input_scale) ==
    LET scale_notes == getPitches(input_scale, ps(input_note) - 12, ps(input_note) + 12)
    IN  [i \in 1..Len(scale_notes) |-> nameWithOctave(scale_notes[i])]

\* list.index(x): position of the first occurrence, counted from 0
index_of(list, x) == (CHOOSE i \in 1..Len(list) :
                         list[i] = x /\ \A j \in 1..(i - 1) : list[j] # x) - 1

_translate_note_in_scale_from_bottom(input_note, translation, input_scale, scale_creator) ==
    LET scale_pitch_names == get_scale_notes(Note(input_note),
                                             ensure_scale(input_scale, scale_creator))
    IN  IF \A i \in 1..Len(scale_pitch_names) :
                scale_pitch_names[i] # nameWithOctave(Note(input_note))
        THEN Raises("ValueError", <<Lit("The input note is not in the specified scale.")>>)
        ELSE Returns(PyStr(scale_pitch_names[
                        (translation.n % Len(scale_pitch_names)) + 1]))

_translate_note_in_scale_clamped(input_note, translation, input_scale, scale_creator) ==
    LET scale_pitch_names == get_scale_notes(Note(input_note),
                                             ensure_scale(input_scale, scale_creator))
        name == nameWithOctave(Note(input_note))
    IN  IF \A i \in 1..Len(scale_pitch_names) : scale_pitch_names[i] # name
        THEN Raises("ValueError", <<Lit("The input note is not in the specified scale.")>>)
        ELSE LET moved == index_of(scale_pitch_names, name) + translation.n
                 new_index == IF moved < 0 THEN 0
                              ELSE IF moved >= Len(scale_pitch_names)
                              THEN Len(scale_pitch_names) - 1
                              ELSE moved
             IN  Returns(PyStr(scale_pitch_names[new_index + 1]))

_translate_note_in_scale_snapping(input_note, translation, input_scale, scale_creator) ==
    LET n == Note(input_note)
        scale_pitch_names == get_scale_notes(n, ensure_scale(input_scale, scale_creator))
        index == (CHOOSE i \in 1..Len(scale_pitch_names) :
                     /\ ps(Note(scale_pitch_names[i])) >= ps(n)
                     /\ \A j \in 1..(i - 1) : ps(Note(scale_pitch_names[j])) < ps(n)) - 1
    IN  Returns(PyStr(scale_pitch_names[
                    ((index + translation.n) % Len(scale_pitch_names)) + 1]))

_translate_note_in_scale(input_note, translation, input_scale, scale_creator) ==
    LET n == Note(input_note)
        scale == ensure_scale(input_scale, scale_creator)
        scale_pitch_names == get_scale_notes(n, scale)
        name == nameWithOctave(n)
    IN  IF \A i \in 1..Len(scale_pitch_names) : scale_pitch_names[i] # name
        THEN Raises("ValueError", <<Lit("The input note is not in the specified scale.")>>)
        ELSE IF translation.type # "int"
        THEN Raises("TypeError", <<Lit("unsupported operand type(s) for +: 'int' and '"),
                                   Lit(translation.type), Lit("'")>>)
        ELSE LET index == index_of(scale_pitch_names, name)
                 new_index == (index + translation.n) % Len(scale_pitch_names)
             IN  Returns(PyStr(scale_pitch_names[new_index + 1]))

---------------------------------------------------------------------------
(* counterpoint.py: tracks.  A Stream holds the Note objects it was built  *)
(* from, here their pitches.                                               *)

Stream(notes) == [type |-> "Stream", notes |-> notes]

note_names(notes) == [i \in 1..Len(notes.notes) |-> nameWithOctave(notes.notes[i])]

translate_notes_in_scale_reversed(input_notes, translation, input_scale, scale_creator) ==
    LET translated ==
            [i \in 1..Len(input_notes) |->
                _translate_note_in_scale(
                    nameWithOctave(Note(input_notes[Len(input_notes) + 1 - i])),
                    translation, input_scale, scale_creator)]
        failed == {i \in 1..Len(input_notes) : translated[i].kind = "raise"}
    IN  IF failed # {}
        THEN translated[CHOOSE i \in failed : \A j \in failed : i <= j]
        ELSE Returns(Stream([i \in 1..Len(input_notes) |-> Note(translated[i].value.s)]))

\* The comprehension stops at the first note whose translation raises.
translate_notes_in_scale(input_notes, translation, input_scale, scale_creator) ==
    LET translated ==
            [i \in 1..Len(input_notes) |->
                _translate_note_in_scale(nameWithOctave(Note(input_notes[i])),
                                         translation, input_scale, scale_creator)]
        failed == {i \in 1..Len(input_notes) : translated[i].kind = "raise"}
    IN  IF failed # {}
        THEN translated[CHOOSE i \in failed : \A j \in failed : i <= j]
        ELSE Returns(Stream([i \in 1..Len(input_notes) |-> Note(translated[i].value.s)]))

translate_in_scale(tracks, translation, input_scale, scale_creator) ==
    IF tracks.type = "list" /\ \A i \in 1..Len(tracks.items) : tracks.items[i].type = "list"
    THEN LET translated_tracks ==
                 [i \in 1..Len(tracks.items) |->
                     translate_notes_in_scale(
                         [k \in 1..Len(tracks.items[i].items) |-> tracks.items[i].items[k].s],
                         translation, input_scale, scale_creator)]
             failed == {i \in 1..Len(tracks.items) : translated_tracks[i].kind = "raise"}
         IN  IF failed # {}
             THEN translated_tracks[CHOOSE i \in failed : \A j \in failed : i <= j]
             ELSE Returns(PyList([i \in 1..Len(tracks.items) |-> translated_tracks[i].value]))
    ELSE LET track == IF tracks.type = "str" THEN <<tracks>> ELSE tracks.items
         IN  translate_notes_in_scale([k \in 1..Len(track) |-> track[k].s],
                                      translation, input_scale, scale_creator)

NoteInputs ==
    {<<step>> \o accidental \o <<"4">> :
        step \in {"C", "D", "E", "F", "G", "A", "B"},
        accidental \in {<<>>, <<"#">>, <<"b">>, <<"-">>}}
        \cup {<<"C">>, <<"D", "b">>}

ScaleCreatorInputs == {"MajorScale", "HarmonicMinorScale"}

\* a tonic with the scale creator it is handed to
ScaleInputs ==
    {<<<<"C">>, "MajorScale">>, <<<<"E">>, "MajorScale">>,
     <<<<"D", "b">>, "MajorScale">>, <<<<"A">>, "HarmonicMinorScale">>}

StepsInputs == (0 - MaxSteps)..MaxSteps

TrackNoteInputs == {<<"C", "4">>, <<"E", "4">>, <<"B", "3">>}

PyTrack(notes) == PyList([i \in 1..Len(notes) |-> PyStr(notes[i])])

SingleTrackInputs ==
    {PyTrack(notes) : notes \in UNION {[1..n -> TrackNoteInputs] : n \in 1..MaxTrackLen}}

ExampleTracks ==
    {PyTrack(<<>>), PyTrack(<<<<"C", "#", "4">>>>),
     PyTrack(<<<<"C", "4">>, <<"E", "4">>, <<"G", "4">>>>),
     PyTrack(<<<<"A", "4">>, <<"C", "5">>, <<"E", "5">>>>)}

MultiTrackInputs == {PyList(tracks) : tracks \in UNION {[1..n -> ExampleTracks] : n \in 0..MaxTracks}}

TracksInputs ==
    SingleTrackInputs \cup MultiTrackInputs
        \cup {PyStr(note) : note \in TrackNoteInputs \cup {<<"C", "#", "4">>}}

TranslationInputs ==
    {PyInt(0 - 2), PyInt(9), PyList(<<PyInt(0), PyInt(1)>>)}

---------------------------------------------------------------------------
(* util.py: joining streams.  A Note object has an identity besides its    *)
(* pitch: a Stream refuses to take the same object twice.                  *)

NoteObject(id, name) ==
    [step |-> Note(name).step, alter |-> Note(name).alter,
     octave |-> Note(name).octave, has_octave |-> Note(name).has_octave, id |-> id]

StreamException ==
    Raises("StreamException", <<Lit("the object is already found in this Stream")>>)

\* combined_stream.append(element) for every element of every stream, in
\* order, from stream i on; combined holds what was appended so far
RECURSIVE append_streams(_, _, _)
append_streams(list_of_streams, i, combined) ==
    IF i > Len(list_of_streams) THEN Returns(Stream(combined))
    ELSE LET elements == list_of_streams[i].notes
             seen == {combined[k].id : k \in 1..Len(combined)}
         IN  IF \/ \E k \in 1..Len(elements) : elements[k].id \in seen
                \/ \E j, k \in 1..Len(elements) : j # k /\ elements[j].id = elements[k].id
             THEN StreamException
             ELSE append_streams(list_of_streams, i + 1, combined \o elements)

add_streams(list_of_streams) == append_streams(list_of_streams, 1, <<>>)

\* zip(*streams_list): one tuple per track index every segment has
zip(streams_list) ==
    IF streams_list = <<>> THEN <<>>
    ELSE LET shortest == CHOOSE n \in {Len(streams_list[j]) : j \in 1..Len(streams_list)} :
                             \A j \in 1..Len(streams_list) : n <= Len(streams_list[j])
         IN  [i \in 1..shortest |-> [j \in 1..Len(streams_list) |-> streams_list[j][i]]]

concatenate_streams(streams_list) ==
    LET joined == [i \in 1..Len(zip(streams_list)) |-> add_streams(zip(streams_list)[i])]
        failed == {i \in 1..Len(joined) : joined[i].kind = "raise"}
    IN  IF failed # {}
        THEN joined[CHOOSE i \in failed : \A j \in failed : i <= j]
        ELSE Returns(PyList([i \in 1..Len(joined) |-> joined[i].value]))

s11 == Stream(<<NoteObject(1, <<"C", "4">>), NoteObject(2, <<"E", "4">>)>>)
s12 == Stream(<<NoteObject(3, <<"G", "4">>)>>)
s21 == Stream(<<NoteObject(4, <<"A", "4">>)>>)
s22 == Stream(<<NoteObject(5, <<"C", "5">>), NoteObject(6, <<"E", "5">>)>>)

\* lists of streams: the tracks of one segment, or the argument of add_streams
StreamsInputs ==
    {<<>>, <<s11>>, <<s21>>, <<s11, s12>>, <<s21, s22>>, <<s12, s11>>, <<s11, s11>>,
     <<s11, s12, s21>>}

StreamsListInputs == UNION {[1..n -> StreamsInputs] : n \in 0..MaxSegments}

---------------------------------------------------------------------------
(* converters.py.  A str is kept as the two parts os.path.splitext gives   *)
(* it (a format name such as midi, or a bare .mid, has no extension part); *)
(* bytes are kept by the signature they start with.  The sources used have *)
(* a stem that does not contain their extension, so str.replace changes    *)
(* the extension only.                                                     *)

PyPathStr(stem, ext) == [type |-> "str", stem |-> stem, ext |-> ext]
PyBytes(signature) == [type |-> "bytes", signature |-> signature]
NoFormat == "None"       \* the value None of an Optional[str] format

dflt_format_for_extension ==
    (".midi" :> "midi") @@ (".mid" :> "midi") @@ (".xml" :> "musicxml") @@
    (".musicxml" :> "musicxml") @@ (".wav" :> "wav") @@ (".png" :> "image") @@
    (".jpg" :> "image") @@ (".jpeg" :> "image")

\* {v: k for k, v in ...}: the last extension listed for a format wins
dflt_extension_for_format ==
    ("midi" :> ".mid") @@ ("musicxml" :> ".musicxml") @@ ("wav" :> ".wav") @@
    ("image" :> ".jpeg")

FORMAT_SIGNATURES ==
    ("MThd" :> "midi") @@ ("RIFF" :> "wav") @@ ("<?xml" :> "musicxml") @@
    ("<score-partwise" :> "musicxml") @@ ("JPEG" :> "image") @@ ("PNG" :> "image")
    \* the two image signatures, FF D8 and 89 PNG, are written by name

format_of_filepath(filepath) ==
    IF filepath.ext \in DOMAIN dflt_format_for_extension
    THEN dflt_format_for_extension[filepath.ext]
    ELSE filepath.ext

replace_extension(src, dest_extension) == PyPathStr(src.stem, dest_extension)

guess_format_from_bytes(data) ==
    IF data.signature \in DOMAIN FORMAT_SIGNATURES
    THEN FORMAT_SIGNATURES[data.signature]
    ELSE NoFormat

\* a converter called as conversion_func(src, dest); the outcome lists the
\* converter calls that were made
call_conversion_func(conversion_func, src, dest) ==
    IF conversion_func = "image_to_musicxml"
    THEN [kind |-> "raise", type |-> "TypeError",
          msg |-> <<Lit("image_to_musicxml() takes 1 positional argument but 2 were given")>>,
          invoked |-> <<>>]
    ELSE [kind |-> "return", value |-> dest,
          invoked |-> <<[func |-> conversion_func, src |-> src, dest |-> dest]>>]

_get_conversion_func(src_format, dest_format) ==
    IF src_format = "musicxml" /\ dest_format = "midi" THEN Returns("musicxml_to_midi")
    ELSE IF src_format = "midi" /\ dest_format = "wav" THEN Returns("midi_to_wav")
    ELSE IF src_format = "image" /\ dest_format = "musicxml"
    THEN Returns("image_to_musicxml")
    ELSE Raises("ValueError", <<Lit("Unsupported conversion: "), Interp(src_format),
                               Lit(" -> "), Interp(dest_format)>>)

ExtensionFor(format) ==
    IF format \in DOMAIN dflt_extension_for_format
    THEN dflt_extension_for_format[format]
    ELSE "." \o format

\* the bytes a converter left in the file at dest
ReadBack(done, dest_format) ==
    IF done.kind = "raise" THEN done
    ELSE [kind |-> "return", value |-> [type |-> "bytes", written_as |-> dest_format],
          invoked |-> done.invoked]

\* _convert_from_bytes and _convert_file_to_bytes, after the conversion
\* function was found
convert_with(conversion_func, src, dest, is_src_bytes, src_format, dest_format) ==
    LET temp_src == PyPathStr("tmp", ExtensionFor(src_format))
        temp_dest == PyPathStr("tmp", ExtensionFor(dest_format))
        from == IF is_src_bytes THEN temp_src ELSE src
    IN  IF dest.type = "NoneType"
        THEN ReadBack(call_conversion_func(conversion_func, from, temp_dest), dest_format)
        ELSE call_conversion_func(conversion_func, from, dest)

\* the formats convert settles on, and the destination it is left with
\* (lines 113-143)
convert_formats(src, dest, src_format, dest_format) ==
    LET is_src_bytes == src.type = "bytes"
        dest_is_format == /\ dest.type = "str" /\ dest.ext = ""
                          /\ \E e \in DOMAIN dflt_format_for_extension :
                                dflt_format_for_extension[e] = dest.stem
        dest_format1 == IF dest_is_format THEN dest.stem ELSE dest_format
        dest1 == IF dest_is_format THEN PyNone ELSE dest
        src_format1 == IF src_format # NoFormat THEN src_format
                       ELSE IF is_src_bytes THEN guess_format_from_bytes(src)
                       ELSE format_of_filepath(src)
        dest_is_extension == /\ ~is_src_bytes /\ dest1.type = "str" /\ dest1.ext = ""
                             /\ dest1.stem \in DOMAIN dflt_format_for_extension
        dest2 == IF dest_is_extension THEN replace_extension(src, dest1.stem) ELSE dest1
        dest_format2 == IF dest_format1 = NoFormat /\ dest2.type = "str"
                        THEN format_of_filepath(dest2)
                        ELSE dest_format1
    IN  [src_format |-> src_format1, dest_format |-> dest_format2, dest |-> dest2,
         return_bytes |-> dest1.type = "NoneType"]

convert(src, dest, src_format, dest_format) ==
    LET to == convert_formats(src, dest, src_format, dest_format)
        conversion_func == _get_conversion_func(to.src_format, to.dest_format)
    IN  IF to.src_format \in {NoFormat, ""} \/ to.dest_format \in {NoFormat, ""}
        THEN [kind |-> "raise", type |-> "ValueError",
              msg |-> <<Lit("Could not determine formats: src_format="),
                        Interp(to.src_format), Lit(", dest_format="),
                        Interp(to.dest_format),
                        Lit(". Please specify src_format and dest_format explicitly.")>>,
              invoked |-> <<>>]
        ELSE IF conversion_func.kind = "raise"
        THEN [kind |-> "raise", type |-> conversion_func.type,
              msg |-> conversion_func.msg, invoked |-> <<>>]
        ELSE IF src.type = "bytes"
        THEN convert_with(conversion_func.value, src, to.dest, TRUE,
                          to.src_format, to.dest_format)
        ELSE convert_with(conversion_func.value, src,
                          IF to.return_bytes THEN PyNone ELSE to.dest, FALSE,
                          to.src_format, to.dest_format)

SrcInputs ==
    {PyPathStr("my_score", ".musicxml"), PyPathStr("my_score", ".xml"),
     PyPathStr("song", ".mid"), PyPathStr("page", ".png"), PyPathStr("take", ".wav"),
     PyPathStr("notes", ".txt"), PyPathStr("README", ""),
     PyBytes("MThd"), PyBytes("<?xml"), PyBytes("PNG"), PyBytes("")}

DestInputs ==
    {PyNone, PyPathStr("midi", ""), PyPathStr("wav", ""), PyPathStr("musicxml", ""),
     PyPathStr("out", ".mid"), PyPathStr("out", ".wav"), PyPathStr("out", ".musicxml"),
     PyPathStr(".mid", "")}

SrcFormatInputs == {NoFormat, "midi", "image"}

DestFormatInputs == {NoFormat, "midi", "wav", "musicxml"}

---------------------------------------------------------------------------
(* The state machine: the module is imported, then its functions are       *)
(* called one at a time; Return hands the outcome to the caller.           *)

Init ==
    /\ pc = "import"
    /\ quality_extensions = quality_extensions_literal
    /\ chord_renders = <<>>
    /\ op = "none"
    /\ args = <<>>
    /\ ret = NoCall

\* the module body: the alias pass and the two decorated renderers
ImportModule ==
    /\ pc = "import"
    /\ pc' = "idle"
    /\ quality_extensions' = update(quality_extensions, add_aliases(quality_extensions))
    /\ chord_renders' = registered(registered(chord_renders, play_simultaneously_func, PyNone),
                                   play_arpeggio_func, PyNone)
    /\ UNCHANGED <<op, args, ret>>

CallParseRoot ==
    /\ pc = "idle"
    /\ \E chord \in ChordInputs :
          /\ op' = "parse_root"
          /\ args' = [chord |-> chord]
          /\ ret' = parse_root(chord)
    /\ pc' = "called"
    /\ UNCHANGED <<quality_extensions, chord_renders>>

CallChordToNotes ==
    /\ pc = "idle"
    /\ \E chord \in ChordInputs :
          /\ op' = "chord_to_notes"
          /\ args' = [chord |-> chord]
          /\ ret' = chord_to_notes(chord)
    /\ pc' = "called"
    /\ UNCHANGED <<quality_extensions, chord_renders>>

CallRegisterChordRender ==
    /\ pc = "idle"
    /\ \E chord_renderer \in RendererInputs, name \in {PyNone} \cup {PyName(n) : n \in NameInputs} :
          /\ op' = "register_chord_render"
          /\ args' = [chord_renderer |-> chord_renderer, name |-> name]
          /\ chord_renders' = registered(chord_renders, chord_renderer, name)
          /\ ret' = Returns(chord_renderer)
    /\ pc' = "called"
    /\ UNCHANGED quality_extensions

CallPlaySimultaneously ==
    /\ pc = "idle"
    /\ \E notes \in NotesInputs, track \in TrackInputs,
          duration \in DurationInputs, velocity \in VelocityInputs :
          /\ op' = "play_simultaneously"
          /\ args' = [notes |-> notes, track |-> track, duration |-> duration,
                      velocity |-> velocity]
          /\ ret' = play_simultaneously(notes, track, duration, velocity)
    /\ pc' = "called"
    /\ UNCHANGED <<quality_extensions, chord_renders>>

CallPlayArpeggio ==
    /\ pc = "idle"
    /\ \E notes \in NotesInputs, track \in TrackInputs,
          duration \in DurationInputs, velocity \in VelocityInputs :
          /\ op' = "play_arpeggio"
          /\ args' = [notes |-> notes, track |-> track, duration |-> duration,
                      velocity |-> velocity]
          /\ ret' = play_arpeggio(notes, track, duration, velocity)
    /\ pc' = "called"
    /\ UNCHANGED <<quality_extensions, chord_renders>>

CallResolveChordRender ==
    /\ pc = "idle"
    /\ \E chord_renderer \in RendererInputs \cup {PyName(n) : n \in NameInputs} :
          /\ op' = "resolve_chord_render"
          /\ args' = [chord_renderer |-> chord_renderer]
          /\ ret' = resolve_chord_render(chord_renderer)
    /\ pc' = "called"
    /\ UNCHANGED <<quality_extensions, chord_renders>>

CallProcessChordSequence ==
    /\ pc = "idle"
    /\ \E chord_sequence \in SequenceInputs, default_duration \in {DFLT_DURATION, 120} :
          /\ op' = "process_chord_sequence"
          /\ args' = [chord_sequence |-> chord_sequence,
                      default_duration |-> default_duration]
          /\ ret' = process_chord_sequence(chord_sequence, default_duration)
    /\ pc' = "called"
    /\ UNCHANGED <<quality_extensions, chord_renders>>

CallChordsToMidi ==
    /\ pc = "idle"
    /\ \E chord_sequence \in MidiSequenceInputs, output_file \in OutputFileInputs,
          render_chord \in RenderChordInputs,
          chord_definitions \in ChordDefinitionsInputs :
          /\ op' = "chords_to_midi"
          /\ args' = [chord_sequence |-> chord_sequence, output_file |-> output_file,
                      render_chord |-> render_chord,
                      chord_definitions |-> chord_definitions]
          /\ ret' = chords_to_midi(chord_sequence, output_file, render_chord,
                                   chord_definitions)
    /\ pc' = "called"
    /\ UNCHANGED <<quality_extensions, chord_renders>>

CallTranslateNoteInScale ==
    /\ pc = "idle"
    /\ \E input_note \in NoteInputs, translation \in StepsInputs,
          scale \in ScaleInputs :
          /\ op' = "_translate_note_in_scale"
          /\ args' = [input_note |-> PyStr(input_note),
                      translation |-> PyInt(translation),
                      input_scale |-> PyStr(scale[1]),
                      scale_creator |-> scale[2]]
          /\ ret' = _translate_note_in_scale(input_note, PyInt(translation),
                                             scale[1], scale[2])
    /\ pc' = "called"
    /\ UNCHANGED <<quality_extensions, chord_renders>>

CallTranslateInScale ==
    /\ pc = "idle"
    /\ \E tracks \in TracksInputs, translation \in TranslationInputs,
          scale_creator \in ScaleCreatorInputs :
          /\ op' = "translate_in_scale"
          /\ args' = [tracks |-> tracks, translation |-> translation,
                      input_scale |-> PyStr(<<"C">>), scale_creator |-> scale_creator]
          /\ ret' = translate_in_scale(tracks, translation, <<"C">>, scale_creator)
    /\ pc' = "called"
    /\ UNCHANGED <<quality_extensions, chord_renders>>

CallAddStreams ==
    /\ pc = "idle"
    /\ \E list_of_streams \in StreamsInputs :
          /\ op' = "add_streams"
          /\ args' = [list_of_streams |-> list_of_streams]
          /\ ret' = add_streams(list_of_streams)
    /\ pc' = "called"
    /\ UNCHANGED <<quality_extensions, chord_renders>>

CallConcatenateStreams ==
    /\ pc = "idle"
    /\ \E streams_list \in StreamsListInputs :
          /\ op' = "concatenate_streams"
          /\ args' = [streams_list |-> streams_list]
          /\ ret' = concatenate_streams(streams_list)
    /\ pc' = "called"
    /\ UNCHANGED <<quality_extensions, chord_renders>>

CallConvert ==
    /\ pc = "idle"
    /\ \E src \in SrcInputs, dest \in DestInputs, src_format \in SrcFormatInputs,
          dest_format \in DestFormatInputs :
          /\ op' = "convert"
          /\ args' = [src |-> src, dest |-> dest, src_format |-> src_format,
                      dest_format |-> dest_format]
          /\ ret' = convert(src, dest, src_format, dest_format)
    /\ pc' = "called"
    /\ UNCHANGED <<quality_extensions, chord_renders>>

Return ==
    /\ pc = "called"
    /\ pc' = "idle"
    /\ op' = "none"
    /\ args' = <<>>
    /\ ret' = NoCall
    /\ UNCHANGED <<quality_extensions, chord_renders>>

Next ==
    \/ ImportModule
    \/ CallParseRoot
    \/ CallChordToNotes
    \/ CallRegisterChordRender
    \/ CallPlaySimultaneously
    \/ CallPlayArpeggio
    \/ CallResolveChordRender
    \/ CallProcessChordSequence
    \/ CallChordsToMidi
    \/ CallTranslateNoteInScale
    \/ CallTranslateInScale
    \/ CallAddStreams
    \/ CallConcatenateStreams
    \/ CallConvert
    \/ Return

Spec == Init /\ [][Next]_vars

---------------------------------------------------------------------------
(* Helpers of the properties.                                              *)

UpperRootLetters == {"A", "B", "C", "D", "E", "F", "G"}

\* the events a renderer call appended to the track it was given
Appended == SliceFrom(ret.track, Len(args.track))

\* sum of the time deltas of a sequence of events
RECURSIVE TotalTime(_)
TotalTime(events) ==
    IF events = <<>> THEN 0 ELSE Head(events).time + TotalTime(Tail(events))

\* absolute tick of event i: the deltas of events 1..i added up
TickOf(events, i) == TotalTime(SubSeq(events, 1, i))

\* the ways to cut a chord string into a known root and a known quality
ValidSplits(chord) ==
    {k \in 0..Len(chord) :
        /\ SubSeq(chord, 1, k) \in DOMAIN root_notes
        /\ SliceFrom(chord, k) \in Keys(quality_extensions)}

---------------------------------------------------------------------------
(* C1..C6: the chord grammar.                                              *)

\* C1: for a chord symbol made of a root of the root table followed by a
\* quality of the interval table, chord_to_notes returns exactly
\* [root pitch + offset] for the quality's offsets in table order; the empty
\* quality gives the major triad; Cmaj7, C and Am give the pitches named.
C1_ChordToNotesFollowsTables ==
    op = "chord_to_notes" =>
        /\ \A r \in DOMAIN root_notes, i \in DOMAIN quality_extensions :
              args.chord = r \o quality_extensions[i][1] =>
                  /\ ret.kind = "return"
                  /\ ret.value = [j \in 1..Len(quality_extensions[i][2]) |->
                                     root_notes[r] + quality_extensions[i][2][j]]
        /\ args.chord \in DOMAIN root_notes =>
              /\ ret.kind = "return"
              /\ ret.value = <<root_notes[args.chord], root_notes[args.chord] + 4,
                               root_notes[args.chord] + 7>>
        /\ args.chord = <<"C", "m", "a", "j", "7">> => ret = Returns(<<60, 64, 67, 71>>)
        /\ args.chord = <<"C">> => ret = Returns(<<60, 64, 67>>)
        /\ args.chord = <<"A", "m">> => ret = Returns(<<69, 72, 76>>)

C1_Witness ==
    /\ op = "chord_to_notes"
    /\ args.chord = <<"C", "#", "m", "a", "j", "7">>
    /\ ret = Returns(<<61, 65, 68, 72>>)

\* C2: for every root letter A..G with every accidental in {none, #, b} and
\* every canonical quality key, chord_to_notes succeeds and returns a
\* non-empty strictly ascending pitch list that starts at the root's table
\* pitch.
C2_AllRootSpellingsResolve ==
    op = "chord_to_notes" =>
        \A l \in UpperRootLetters, a \in AccidentalInputs,
           i \in DOMAIN quality_extensions_literal :
            args.chord = <<l>> \o a \o quality_extensions_literal[i][1] =>
                /\ ret.kind = "return"
                /\ Len(ret.value) >= 1
                /\ \A j \in 1..(Len(ret.value) - 1) : ret.value[j] < ret.value[j + 1]
                /\ (<<l>> \o a) \in DOMAIN root_notes
                /\ ret.value[1] = root_notes[<<l>> \o a]

\* C3: once the alias pass has run, every canonical key starting with maj,
\* min or dim has the alias with that prefix replaced by M, m or the degree
\* sign, the alias maps to the canonical key's intervals, and every
\* canonical key still maps to the intervals of the dict literal.
C3_AliasConsistency ==
    pc # "import" =>
        \A i \in DOMAIN quality_extensions_literal :
            LET k == quality_extensions_literal[i][1]
                v == quality_extensions_literal[i][2]
            IN  /\ k \in Keys(quality_extensions)
                /\ Lookup(quality_extensions, k) = v
                /\ \A sub \in {<<<<"m", "a", "j">>, "M">>, <<<<"m", "i", "n">>, "m">>,
                               <<<<"d", "i", "m">>, "°">>} :
                      startswith(k, sub[1]) =>
                          /\ (<<sub[2]>> \o SliceFrom(k, 3)) \in Keys(quality_extensions)
                          /\ Lookup(quality_extensions, <<sub[2]>> \o SliceFrom(k, 3)) = v

C3_Witness ==
    /\ pc = "idle"
    /\ Len(quality_extensions) > Len(quality_extensions_literal)
    /\ <<"m", "m", "a", "j", "7">> \in Keys(quality_extensions)
    /\ Lookup(quality_extensions, <<"°", "7">>) = <<0, 3, 6, 9>>

\* C4: parse_root returns the matched root (a letter A-G and an optional #
\* or b) when the string starts with one, and fails with the invalid-chord
\* error for every string that does not start with an uppercase letter A-G.
C4_ParseRootUppercaseOnly ==
    op = "parse_root" =>
        IF Len(args.chord) >= 1 /\ args.chord[1] \in UpperRootLetters
        THEN ret = Returns(IF Len(args.chord) >= 2 /\ args.chord[2] \in {"#", "b"}
                           THEN SubSeq(args.chord, 1, 2)
                           ELSE SubSeq(args.chord, 1, 1))
        ELSE /\ ret.kind = "raise"
             /\ ret.msg[1] = Lit("Invalid chord: ")

\* C5: when the part of the symbol after the matched root is no key of the
\* interval table, chord_to_notes returns no pitches: it raises, and for a
\* root of the root table the error is the unknown-quality one naming that
\* part.
C5_UnknownQualityRaises ==
    op = "chord_to_notes" =>
        LET root == chord_note_pattern_match(args.chord)
            rest == SliceFrom(args.chord, Len(root))
        IN  (root # <<>> /\ rest \notin Keys(quality_extensions)) =>
                /\ ret.kind = "raise"
                /\ root \in DOMAIN root_notes =>
                      ret = Raises("ValueError",
                                   <<Lit("Unknown quality/extension: "), Interp(rest)>>)

C5_Witness ==
    /\ op = "chord_to_notes"
    /\ args.chord = <<"C", "x", "y", "z">>
    /\ ret.kind = "raise"
    /\ ret.msg = <<Lit("Unknown quality/extension: "), Interp(<<"x", "y", "z">>)>>

\* C6: a string is accepted by chord_to_notes exactly when it has a split
\* into a root of the root table and a quality of the interval table; that
\* split is unique and is the one the greedy root match picks.
C6_UniqueDecomposition ==
    op = "chord_to_notes" =>
        /\ Cardinality(ValidSplits(args.chord)) <= 1
        /\ (ret.kind = "return") <=> (ValidSplits(args.chord) # {})
        /\ ret.kind = "return" =>
              LET k == CHOOSE k \in ValidSplits(args.chord) : TRUE
              IN  /\ parse_root(args.chord) = Returns(SubSeq(args.chord, 1, k))
                  /\ ret.value[1] = root_notes[SubSeq(args.chord, 1, k)]
                  /\ Len(ret.value) =
                        Len(Lookup(quality_extensions, SliceFrom(args.chord, k)))

C6_Witness ==
    /\ op = "chord_to_notes"
    /\ args.chord = <<"B", "b", "m", "7">>
    /\ ValidSplits(args.chord) = {2}
    /\ ret = Returns(<<70, 73, 77, 80>>)

---------------------------------------------------------------------------
(* C7..C9: the renderers and the registry.                                 *)

\* C7: for N >= 1 pitches and duration D, play_simultaneously appends N
\* note_on events with delta 0, then N note_off events, one per pitch in the
\* same order, the first with delta D and the others with delta 0, so the
\* deltas add up to D and every note_off is at absolute tick D.
C7_SimultaneousEvents ==
    (op = "play_simultaneously" /\ Len(args.notes) >= 1) =>
        LET N == Len(args.notes)
        IN  /\ ret.kind = "return"
            /\ SubSeq(ret.track, 1, Len(args.track)) = args.track
            /\ Len(Appended) = 2 * N
            /\ \A i \in 1..N :
                  /\ Appended[i] = Message("note_on", args.notes[i], args.velocity, 0)
                  /\ Appended[N + i] =
                        Message("note_off", args.notes[i], args.velocity,
                                IF i = 1 THEN args.duration ELSE 0)
                  /\ TickOf(Appended, i) = 0
                  /\ TickOf(Appended, N + i) = args.duration
            /\ TotalTime(Appended) = args.duration

C7_Witness ==
    /\ op = "play_simultaneously"
    /\ args.notes = <<60, 64, 67>>
    /\ args.duration = DFLT_DURATION
    /\ Len(args.track) = 3
    /\ ret.kind = "return"
    /\ Len(ret.track) = 9
    /\ ret.track[7].time = DFLT_DURATION

\* C8: for N >= 1 pitches and duration D with slice = D div N, play_arpeggio
\* appends events whose deltas add up to N * slice, pitch i (from 0) starts
\* at absolute tick i * slice and stops at (i + 1) * slice, and no two
\* pitches sound at the same time.
C8_ArpeggioSpansSlices ==
    (op = "play_arpeggio" /\ Len(args.notes) >= 1) =>
        LET N == Len(args.notes)
            slice == args.duration \div N
        IN  /\ ret.kind = "return"
            /\ Len(Appended) = 2 * N
            /\ TotalTime(Appended) = N * slice
            /\ \A i \in 1..N :
                  /\ Appended[2 * i - 1].type = "note_on"
                  /\ Appended[2 * i - 1].note = args.notes[i]
                  /\ Appended[2 * i].type = "note_off"
                  /\ Appended[2 * i].note = args.notes[i]
                  /\ TickOf(Appended, 2 * i - 1) = (i - 1) * slice
                  /\ TickOf(Appended, 2 * i) = i * slice

\* C9: resolve_chord_render returns a renderer given by reference unchanged,
\* returns the registered renderer for a registered name, and for an
\* unregistered name raises an error whose message lists the names
\* registered at that moment.
C9_ResolveChordRender ==
    op = "resolve_chord_render" =>
        IF args.chord_renderer.type # "str"
        THEN ret = Returns(args.chord_renderer)
        ELSE IF args.chord_renderer.name \in DOMAIN chord_renders
        THEN ret = Returns(chord_renders[args.chord_renderer.name])
        ELSE /\ ret.kind = "raise"
             /\ \A n \in DOMAIN chord_renders :
                   \E i \in DOMAIN ret.msg : ret.msg[i] = Interp(n)

---------------------------------------------------------------------------
(* C10: the chord-sequence preprocessor.                                   *)

\* an entry of one of the two documented shapes
IsChordEntry(e) ==
    \/ e.type = "str"
    \/ /\ e.type = "tuple"
       /\ Len(e.items) = 2
       /\ e.items[1].type = "str"
       /\ e.items[2].type = "int"

\* C10: process_chord_sequence maps each entry, in input order, to one
\* (symbol, duration) pair: a bare symbol gets the default 960 ticks, a
\* (symbol, duration) pair is kept, and an entry of any other shape (a list,
\* a number, a tuple that is no (symbol, duration) pair) raises the
\* invalid-entry error; for a sequence of well-shaped entries the output has
\* the input's length.
C10_ProcessChordSequence ==
    (op = "process_chord_sequence" /\ args.default_duration = DFLT_DURATION) =>
        LET seq == args.chord_sequence
            bad == {i \in DOMAIN seq : ~IsChordEntry(seq[i])}
            stop == IF bad = {} THEN Len(seq) + 1
                    ELSE CHOOSE i \in bad : \A j \in bad : i <= j
        IN  /\ Len(ret.yielded) = stop - 1
            /\ \A i \in 1..(stop - 1) :
                  ret.yielded[i] =
                      IF seq[i].type = "str"
                      THEN PyTuple(<<seq[i], PyInt(960)>>)
                      ELSE seq[i]
            /\ bad = {} => ret.kind = "return"
            /\ bad # {} =>
                  /\ ret.kind = "raise"
                  /\ ret.msg = <<Lit("Invalid chord: "), Interp(seq[stop])>>


---------------------------------------------------------------------------
(* C11: in the track chords_to_midi produces, exactly one program_change   *)
(* event is emitted, it is the first event, and the events of the chords   *)
(* follow block by block in the order of the input sequence.               *)

\* the (chord, duration) pair an entry of a chord sequence stands for
EntryChord(entry) == IF entry.type = "str" THEN entry.s ELSE entry.items[1].s
EntryDuration(entry) == IF entry.type = "str" THEN DFLT_DURATION ELSE entry.items[2].n

\* the events one chord contributes, rendered on a track of its own
BlockOf(entry, render_chord) ==
    LET pattern == chord_to_notes(EntryChord(entry)).value
    IN  IF render_chord = play_simultaneously_func
        THEN play_simultaneously(pattern, <<>>, EntryDuration(entry), 64).track
        ELSE play_arpeggio(pattern, <<>>, EntryDuration(entry), 64).track

RECURSIVE Flatten(_)
Flatten(blocks) ==
    IF blocks = <<>> THEN <<>> ELSE Head(blocks) \o Flatten(Tail(blocks))

ProgramChanges(track) == {i \in 1..Len(track) : track[i].type = "program_change"}

C11_ProgramChangeThenChordsInOrder ==
    (pc = "called" /\ op = "chords_to_midi")
        => /\ ret.track # <<>> => ProgramChanges(ret.track) = {1}
           /\ (ret.kind = "return" /\ args.chord_definitions = chord_to_notes_func)
                => LET seq == args.chord_sequence
                       render_chord == resolve_chord_render(args.render_chord).value
                   IN  Tail(ret.track)
                         = Flatten([k \in 1..Len(seq) |-> BlockOf(seq[k], render_chord)])

C11_Witness ==
    /\ pc = "called" /\ op = "chords_to_midi"
    /\ ret.kind = "return"
    /\ args.chord_definitions = chord_to_notes_func
    /\ args.chord_sequence = <<PyStr(<<"C">>), PyTuple(<<PyStr(<<"A", "m">>), PyInt(120)>>)>>
    /\ Len(ret.track) > 2

---------------------------------------------------------------------------
(* C12: a chord whose definition is the empty pitch set makes              *)
(* chords_to_midi emit nothing and raise nothing for it; the call goes on  *)
(* and ends exactly as it would with that chord absent from the sequence.  *)

IsRest(entry) ==
    \/ entry = PyStr(<<"N">>)
    \/ entry.type = "tuple" /\ Len(entry.items) = 2 /\ entry.items[1] = PyStr(<<"N">>)

C12_EmptyPatternIsSkipped ==
    (pc = "called" /\ op = "chords_to_midi"
        /\ args.chord_definitions = rests_definitions_func)
        => ret = chords_to_midi(SelectSeq(args.chord_sequence, LAMBDA e : ~IsRest(e)),
                                args.output_file, args.render_chord,
                                args.chord_definitions)

C12_Witness ==
    /\ pc = "called" /\ op = "chords_to_midi"
    /\ args.chord_definitions = rests_definitions_func
    /\ args.chord_sequence = <<PyTuple(<<PyStr(<<"N">>), PyInt(120)>>), PyStr(<<"C">>)>>
    /\ args.render_chord = play_simultaneously_func
    /\ ret.kind = "return"
    /\ Len(ret.track) = 1 + 2 * 3

---------------------------------------------------------------------------
(* Helpers of the counterpoint claims.                                     *)

\* the pitch is one of the scale's, spelled as the scale spells it, and the
\* name carries its octave
IsNative(input_note, input_scale, scale_creator) ==
    LET n == Note(input_note)
        scale == ensure_scale(input_scale, scale_creator)
    IN  /\ n.has_octave
        /\ \E d \in 1..7 : scale.offsets[d] = (ps(n) - ps(scale.tonic)) % 12
        /\ ScalePitch(scale, ps(n)) = n

TranslatedNative ==
    /\ pc = "called" /\ op = "_translate_note_in_scale"
    /\ IsNative(args.input_note.s, args.input_scale.s, args.scale_creator)

WrittenWithB(input_note) == \E i \in 2..Len(input_note) : input_note[i] = "b"

---------------------------------------------------------------------------
(* C13: translating a scale-native note by 0 returns the very note name    *)
(* that was passed in.  This is the statement as the specification has it; *)
(* it fails for a flat written with b, which comes back written with -.    *)

C13_ZeroReturnsInputName ==
    (TranslatedNative /\ args.translation.n = 0) => ret = Returns(args.input_note)

(* C13 as it holds: translating a scale-native note by 0 returns the same  *)
(* note in the spelling nameWithOctave gives it, which is the input name   *)
(* itself unless the input writes a flat with b.                           *)

C13_ZeroReturnsSameNote ==
    (TranslatedNative /\ args.translation.n = 0)
        => /\ ret = Returns(PyStr(nameWithOctave(Note(args.input_note.s))))
           /\ ~WrittenWithB(args.input_note.s) => ret = Returns(args.input_note)
           /\ WrittenWithB(args.input_note.s)
                => ret = Returns(PyStr(replace(args.input_note.s, <<"b">>, <<"-">>)))

C13_Witness ==
    /\ TranslatedNative /\ args.translation.n = 0
    /\ args.input_note = PyStr(<<"D", "b", "4">>)
    /\ ret = Returns(PyStr(<<"D", "-", "4">>))

---------------------------------------------------------------------------
(* C14: translating a scale-native note by steps and the result by -steps, *)
(* each call with its own window, returns the note name that was passed    *)
(* in, for every integer steps.  This is the statement as the              *)
(* specification has it; it fails for a flat written with b.               *)

BackAgain ==
    _translate_note_in_scale(ret.value.s, PyInt(0 - args.translation.n),
                             args.input_scale.s, args.scale_creator)

C14_RoundTripReturnsInputName ==
    TranslatedNative => (ret.kind = "return" /\ BackAgain = Returns(args.input_note))

(* C14 as it holds: the round trip returns the original note in the        *)
(* spelling nameWithOctave gives it, for every steps, wrapping or not; the *)
(* name is the input name itself unless the input writes a flat with b.    *)

C14_RoundTripReturnsSameNote ==
    TranslatedNative
        => /\ ret.kind = "return"
           /\ BackAgain = Returns(PyStr(nameWithOctave(Note(args.input_note.s))))
           /\ ~WrittenWithB(args.input_note.s) => BackAgain = Returns(args.input_note)

C14_Witness ==
    /\ TranslatedNative /\ args.translation.n = 9
    /\ args.input_note = PyStr(<<"A", "b", "4">>)
    /\ args.input_scale = PyStr(<<"D", "b">>) /\ args.scale_creator = "MajorScale"
    /\ ret = Returns(PyStr(<<"B", "-", "3">>))
    /\ BackAgain = Returns(PyStr(<<"A", "-", "4">>))

---------------------------------------------------------------------------
(* C15: the translated index is (index + steps) mod window_length, within  *)
(* 0..window_length-1 for negative steps too; consequently translating the *)
(* topmost note of the window by +1 yields the bottommost window name and  *)
(* translating the bottommost by -1 yields the topmost.  This is the       *)
(* statement as the specification has it; the consequence fails, because   *)
(* the call on the topmost note builds a window of its own, around it.     *)

\* the window of the call in args
Window ==
    get_scale_notes(Note(args.input_note.s),
                    ensure_scale(args.input_scale.s, args.scale_creator))

\* the result is the window name whose 0-based position is congruent to
\* index + steps modulo the window length
IndexIsModular ==
    LET window == Window
        index == index_of(window, nameWithOctave(Note(args.input_note.s)))
    IN  /\ ret.kind = "return"
        /\ \E new_index \in 0..(Len(window) - 1) :
              /\ (new_index - index - args.translation.n) % Len(window) = 0
              /\ ret.value.s = window[new_index + 1]

C15_TopPlusOneIsBottom ==
    TranslatedNative
        => /\ IndexIsModular
           /\ _translate_note_in_scale(Window[Len(Window)], PyInt(1),
                                       args.input_scale.s, args.scale_creator)
                = Returns(PyStr(Window[1]))
           /\ _translate_note_in_scale(Window[1], PyInt(0 - 1),
                                       args.input_scale.s, args.scale_creator)
                = Returns(PyStr(Window[Len(Window)]))

(* C15 as it holds: the translated index is (index + steps) mod            *)
(* window_length, within 0..window_length-1 for negative steps too;        *)
(* consequently the step count that leads one past the top of the note's   *)
(* own window (window_length - index) yields the bottommost window name    *)
(* and the one that leads one below its bottom (-index - 1) the topmost.   *)

C15_OnePastTheTopIsBottom ==
    TranslatedNative
        => LET window == Window
               index == index_of(window, nameWithOctave(Note(args.input_note.s)))
           IN  /\ IndexIsModular
               /\ args.translation.n = Len(window) - index
                    => ret.value.s = window[1]
               /\ args.translation.n = 0 - index - 1
                    => ret.value.s = window[Len(window)]

C15_Witness ==
    /\ TranslatedNative /\ args.translation.n = 8
    /\ args.input_note = PyStr(<<"C", "4">>) /\ args.input_scale = PyStr(<<"C">>)
    /\ args.scale_creator = "MajorScale"
    /\ ret = Returns(PyStr(<<"C", "3">>))

---------------------------------------------------------------------------
(* C16: a translation within one octave never wraps: for a scale-native    *)
(* note of a seven-degree scale and |steps| <= 7 the result is the scale   *)
(* pitch exactly |steps| degrees above (steps > 0) or below (steps < 0)    *)
(* the input, hence higher for positive and lower for negative steps.      *)

\* the scale's pitch space numbers strictly between two pitches
DegreesBetween(scale, low, high) ==
    {n \in (low + 1)..(high - 1) :
        \E d \in 1..7 : scale.offsets[d] = (n - ps(scale.tonic)) % 12}

C16_WithinOneOctaveNeverWraps ==
    (TranslatedNative /\ args.translation.n \in (0 - 7)..7)
        => LET scale == ensure_scale(args.input_scale.s, args.scale_creator)
               from == ps(Note(args.input_note.s))
               steps == args.translation.n
               to == ps(Note(ret.value.s))
           IN  /\ ret.kind = "return"
               /\ ScalePitch(scale, to) = Note(ret.value.s)
               /\ steps > 0 => /\ to > from
                               /\ Cardinality(DegreesBetween(scale, from, to)) = steps - 1
               /\ steps < 0 => /\ to < from
                               /\ Cardinality(DegreesBetween(scale, to, from)) = 0 - steps - 1
               /\ steps = 0 => to = from

C16_Witness ==
    /\ TranslatedNative /\ args.translation.n = 7
    /\ args.input_note = PyStr(<<"G", "#", "4">>) /\ args.input_scale = PyStr(<<"A">>)
    /\ args.scale_creator = "HarmonicMinorScale"
    /\ ret = Returns(PyStr(<<"G", "#", "5">>))

---------------------------------------------------------------------------
(* C17: the window get_scale_notes builds for a scale-native reference     *)
(* note is in ascending pitch order and holds the reference note's name    *)
(* with octave exactly once, so the translator's index lookup has one      *)
(* answer.                                                                 *)

C17_WindowAscendingReferenceOnce ==
    TranslatedNative
        => LET name == nameWithOctave(Note(args.input_note.s))
               window == Window
           IN  /\ \A i \in 1..(Len(window) - 1) :
                     ps(Note(window[i])) < ps(Note(window[i + 1]))
               /\ Cardinality({i \in 1..Len(window) : window[i] = name}) = 1
               /\ window[index_of(window, name) + 1] = name

C17_Witness ==
    /\ TranslatedNative
    /\ args.input_note = PyStr(<<"E", "4">>) /\ args.input_scale = PyStr(<<"E">>)
    /\ args.scale_creator = "MajorScale"
    /\ Len(Window) = 15
    /\ Window[1] = <<"E", "3">> /\ Window[8] = <<"E", "4">> /\ Window[15] = <<"E", "5">>
    /\ Window[7] = <<"D", "#", "4">>

---------------------------------------------------------------------------
(* C18: when the input note's name with octave does not occur in the       *)
(* window anchored at it (a pitch class foreign to the scale, like C#4 in  *)
(* C major), _translate_note_in_scale fails with the note-not-in-scale     *)
(* error and returns no note; it never moves the note to a scale degree    *)
(* nearby.                                                                 *)

NoteNotInScale ==
    Raises("ValueError", <<Lit("The input note is not in the specified scale.")>>)

C18_ForeignNoteRaises ==
    (pc = "called" /\ op = "_translate_note_in_scale")
        => LET name == nameWithOctave(Note(args.input_note.s))
               window == Window
               absent == \A i \in 1..Len(window) : window[i] # name
           IN  /\ absent => ret = NoteNotInScale
               /\ absent <=> ~IsNative(args.input_note.s, args.input_scale.s,
                                       args.scale_creator)
               /\ ret.kind = "return" => ~absent

C18_Witness ==
    /\ pc = "called" /\ op = "_translate_note_in_scale"
    /\ args.input_note = PyStr(<<"C", "#", "4">>) /\ args.input_scale = PyStr(<<"C">>)
    /\ args.scale_creator = "MajorScale" /\ args.translation.n = 1
    /\ ret = NoteNotInScale

---------------------------------------------------------------------------
(* C19: translate_in_scale keeps the shape of its input.  For one track    *)
(* the output has the length of the input and its i-th note is the         *)
(* single-note translation of the i-th input note, each with its own       *)
(* window (['C4','E4','B3','C4'] by -2 in C major gives                    *)
(* ['A3','C4','G3','A3']); for a list of tracks the output has as many     *)
(* tracks, in the same order, each the track translation of its input      *)
(* track; a single note string is treated as a one-note track.             *)

TranslatedTracks ==
    /\ pc = "called" /\ op = "translate_in_scale"
    /\ args.translation.type = "int"

IsMultiTrack(tracks) ==
    tracks.type = "list" /\ \A i \in 1..Len(tracks.items) : tracks.items[i].type = "list"

\* the single-note translation of a note of the call in args
SingleNote(note) ==
    _translate_note_in_scale(note.s, args.translation, args.input_scale.s,
                             args.scale_creator)

\* what C19 asks of the outcome for one track
TrackShapeKept(track, outcome) ==
    IF \E i \in 1..Len(track) : SingleNote(track[i]).kind = "raise"
    THEN outcome.kind = "raise"
    ELSE /\ outcome.kind = "return"
         /\ outcome.value.type = "Stream"
         /\ Len(note_names(outcome.value)) = Len(track)
         /\ \A i \in 1..Len(track) :
               note_names(outcome.value)[i] = SingleNote(track[i]).value.s

C19_ShapePreserved ==
    TranslatedTracks
        => /\ (args.tracks.type = "list" /\ ~IsMultiTrack(args.tracks))
                => TrackShapeKept(args.tracks.items, ret)
           /\ args.tracks.type = "str"
                => /\ TrackShapeKept(<<args.tracks>>, ret)
                   /\ ret = translate_in_scale(PyList(<<args.tracks>>), args.translation,
                                               args.input_scale.s, args.scale_creator)
           /\ (IsMultiTrack(args.tracks) /\ ret.kind = "return")
                => /\ ret.value.type = "list"
                   /\ Len(ret.value.items) = Len(args.tracks.items)
                   /\ \A i \in 1..Len(args.tracks.items) :
                         TrackShapeKept(args.tracks.items[i].items,
                                        Returns(ret.value.items[i]))
           /\ (IsMultiTrack(args.tracks) /\ ret.kind = "raise")
                => \E i \in 1..Len(args.tracks.items) :
                      \E k \in 1..Len(args.tracks.items[i].items) :
                         SingleNote(args.tracks.items[i].items[k]) = ret

C19_Witness ==
    /\ TranslatedTracks
    /\ args.tracks = PyTrack(<<<<"C", "4">>, <<"E", "4">>, <<"B", "3">>, <<"C", "4">>>>)
    /\ args.translation = PyInt(0 - 2) /\ args.scale_creator = "MajorScale"
    /\ ret.kind = "return"
    /\ note_names(ret.value) = <<<<"A", "3">>, <<"C", "4">>, <<"G", "3">>, <<"A", "3">>>>

---------------------------------------------------------------------------
(* C20: when steps is an ordered sequence [a, b] of integers,              *)
(* translate_in_scale(track, [a, b], scale) is the translation by a        *)
(* followed by the translation by b; for several tracks the i-th output    *)
(* track is the i-th track of the translation by a followed by the i-th    *)
(* track of the translation by b.                                          *)

C20_SequenceConcatenation ==
    (pc = "called" /\ op = "translate_in_scale" /\ args.translation.type = "list")
        => LET by_a == translate_in_scale(args.tracks, args.translation.items[1],
                                          args.input_scale.s, args.scale_creator)
               by_b == translate_in_scale(args.tracks, args.translation.items[2],
                                          args.input_scale.s, args.scale_creator)
           IN  (by_a.kind = "return" /\ by_b.kind = "return")
                 => /\ ret.kind = "return"
                    /\ ret.value.type = by_a.value.type
                    /\ ret.value.type = "Stream"
                         => note_names(ret.value)
                              = note_names(by_a.value) \o note_names(by_b.value)
                    /\ ret.value.type = "list"
                         => /\ Len(ret.value.items) = Len(by_a.value.items)
                            /\ \A i \in 1..Len(ret.value.items) :
                                  note_names(ret.value.items[i])
                                    = note_names(by_a.value.items[i])
                                        \o note_names(by_b.value.items[i])

---------------------------------------------------------------------------
(* C21: concatenate_streams is index-aligned: output track i is track i of *)
(* every segment, joined in segment order; when all segments have K tracks *)
(* the output has exactly K tracks and no note is lost or duplicated; and  *)
(* add_streams of a list of streams has the notes of all of them in order. *)

StreamNames(streams) == [i \in 1..Len(streams) |-> note_names(streams[i])]

C21_ConcatenateIndexAligned ==
    /\ (pc = "called" /\ op = "add_streams")
          => /\ ret.kind = "return"
             /\ note_names(ret.value) = Flatten(StreamNames(args.list_of_streams))
    /\ (pc = "called" /\ op = "concatenate_streams")
          => LET segments == args.streams_list
             IN  /\ ret.kind = "return"
                 /\ \A i \in 1..Len(ret.value.items) :
                       /\ \A j \in 1..Len(segments) : i <= Len(segments[j])
                       /\ note_names(ret.value.items[i])
                            = Flatten([j \in 1..Len(segments) |->
                                          note_names(segments[j][i])])
                 /\ \A K \in 0..3 :
                       (segments # <<>> /\ \A j \in 1..Len(segments) : Len(segments[j]) = K)
                          => Len(ret.value.items) = K

---------------------------------------------------------------------------
(* C22: convert routes each of the three supported (source format,         *)
(* destination format) pairs, musicxml->midi, midi->wav and                *)
(* image->musicxml, to its converter, which is invoked with the source and *)
(* the destination and completes the conversion; every other pair fails    *)
(* with the unsupported-conversion error before any converter is invoked.  *)

ConverterOf ==
    (<<"musicxml", "midi">> :> "musicxml_to_midi") @@ (<<"midi", "wav">> :> "midi_to_wav")
        @@ (<<"image", "musicxml">> :> "image_to_musicxml")

C22_ConvertRoutesPairs ==
    (pc = "called" /\ op = "convert")
        => LET to == convert_formats(args.src, args.dest, args.src_format,
                                     args.dest_format)
               pair == <<to.src_format, to.dest_format>>
           IN  (to.src_format \notin {NoFormat, ""} /\ to.dest_format \notin {NoFormat, ""})
                 => IF pair \in DOMAIN ConverterOf
                    THEN /\ ret.kind = "return"
                         /\ Len(ret.invoked) = 1
                         /\ ret.invoked[1].func = ConverterOf[pair]
                         /\ args.src.type = "str" => ret.invoked[1].src = args.src
                         /\ to.dest.type = "str" => /\ ret.invoked[1].dest = to.dest
                                                    /\ ret.value = to.dest
                    ELSE /\ ret.kind = "raise" /\ ret.type = "ValueError"
                         /\ ret.msg[1] = Lit("Unsupported conversion: ")
                         /\ ret.invoked = <<>>

---------------------------------------------------------------------------
(* C23: after register_chord_render(renderer, name=X) with X other than    *)
(* the renderer function's own name, resolve_chord_render(X) returns that  *)
(* renderer; and registering never removes or replaces a renderer that is  *)
(* registered under a different name.                                      *)

RegisteredUnderOtherName ==
    /\ pc = "called" /\ op = "register_chord_render"
    /\ args.name # PyNone
    /\ args.name.name # args.chord_renderer.name

C23_ResolvesGivenName ==
    RegisteredUnderOtherName
        => resolve_chord_render(args.name) = Returns(args.chord_renderer)

C23_KeepsOtherNames ==
    (RegisteredUnderOtherName' /\ pc = "idle")
        => \A other \in DOMAIN chord_renders :
              other # args'.name.name
                 => /\ other \in DOMAIN chord_renders'
                    /\ chord_renders'[other] = chord_renders[other]

C23_RegisterUnderGivenName == []C23_ResolvesGivenName /\ [][C23_KeepsOtherNames]_vars

---------------------------------------------------------------------------
(* C24: for a valid chord sequence rendered by chords_to_midi with         *)
(* play_simultaneously, no pitch is left sounding once a chord has been    *)
(* fully rendered (every note_on has a later note_off of the same pitch)   *)
(* and the time deltas of all events of the track add up to the sum of the *)
(* chords' durations.  This is the statement as the specification has it;  *)
(* it fails for a chord the chord definitions resolve to no pitch, whose   *)
(* duration goes nowhere.                                                  *)

RenderedSimultaneously ==
    /\ pc = "called" /\ op = "chords_to_midi" /\ ret.kind = "return"
    /\ args.render_chord \in {play_simultaneously_func, PyName("play_simultaneously")}

RECURSIVE SumDurations(_)
SumDurations(chord_sequence) ==
    IF chord_sequence = <<>> THEN 0
    ELSE EntryDuration(Head(chord_sequence)) + SumDurations(Tail(chord_sequence))

\* how many events of the track the first k chords account for, the
\* program_change included
RECURSIVE EventsUpTo(_, _)
EventsUpTo(chord_sequence, k) ==
    IF k = 0 THEN 1
    ELSE EventsUpTo(chord_sequence, k - 1)
           + 2 * Len(call_chord_definitions(args.chord_definitions,
                                            PyStr(EntryChord(chord_sequence[k]))).value)

\* the pitches with more note_on than note_off among the events
Sounding(events) ==
    {p \in {events[i].note : i \in {j \in 1..Len(events) : events[j].type = "note_on"}} :
        Cardinality({i \in 1..Len(events) : events[i].type = "note_on" /\ events[i].note = p})
          > Cardinality({i \in 1..Len(events) :
                            events[i].type = "note_off" /\ events[i].note = p})}

NothingLeftSounding ==
    /\ EventsUpTo(args.chord_sequence, Len(args.chord_sequence)) = Len(ret.track)
    /\ \A k \in 1..Len(args.chord_sequence) :
          Sounding(SubSeq(ret.track, 1, EventsUpTo(args.chord_sequence, k))) = {}
    /\ \A i \in 1..Len(ret.track) :
          ret.track[i].type = "note_on"
             => \E j \in (i + 1)..Len(ret.track) :
                   /\ ret.track[j].type = "note_off"
                   /\ ret.track[j].note = ret.track[i].note

C24_DeltasSumToAllDurations ==
    RenderedSimultaneously
        => /\ NothingLeftSounding
           /\ TotalTime(ret.track) = SumDurations(args.chord_sequence)

(* C24 as it holds: nothing is left sounding after a chord, and the time   *)
(* deltas add up to the durations of the chords that resolve to at least   *)
(* one pitch, which under the default chord definitions are all of them.   *)

C24_DeltasSumToRenderedDurations ==
    RenderedSimultaneously
        => /\ NothingLeftSounding
           /\ TotalTime(ret.track)
                = SumDurations(SelectSeq(args.chord_sequence, LAMBDA e : ~IsRest(e)))
           /\ args.chord_definitions = chord_to_notes_func
                => TotalTime(ret.track) = SumDurations(args.chord_sequence)

C24_Witness ==
    /\ RenderedSimultaneously
    /\ args.chord_definitions = rests_definitions_func
    /\ args.chord_sequence = <<PyStr(<<"C">>), PyTuple(<<PyStr(<<"N">>), PyInt(120)>>)>>
    /\ TotalTime(ret.track) = DFLT_DURATION
    /\ Len(ret.track) = 7

---------------------------------------------------------------------------
(* C25: if an entry of the chord sequence is malformed, or names an        *)
(* unknown root or an unknown quality, chords_to_midi raises that error,   *)
(* saves no output file and returns no MIDI object, also when the bad      *)
(* entry comes after valid entries that were already rendered onto the     *)
(* track.                                                                  *)

\* the error an entry stands for, Returns(PyNone) when it has none
EntryError(entry) ==
    IF ~IsChordEntry(entry)
    THEN Raises("ValueError", <<Lit("Invalid chord: "), Interp(entry)>>)
    ELSE LET pattern == call_chord_definitions(args.chord_definitions,
                                               PyStr(EntryChord(entry)))
         IN  IF pattern.kind = "raise"
             THEN Raises(pattern.type, pattern.msg)
             ELSE Returns(PyNone)

BadEntries ==
    {k \in 1..Len(args.chord_sequence) : EntryError(args.chord_sequence[k]).kind = "raise"}

C25_BadEntryRaisesItsError ==
    (/\ pc = "called" /\ op = "chords_to_midi"
     /\ resolve_chord_render(args.render_chord).kind = "return"
     /\ BadEntries # {})
        => LET first == CHOOSE k \in BadEntries : \A j \in BadEntries : k <= j
               error == EntryError(args.chord_sequence[first])
           IN  /\ ret.kind = "raise"
               /\ ret.type = error.type
               /\ ret.msg = error.msg
               /\ ret.saved = <<>>
====
